---- MODULE Spec2Model ----
(***************************************************************************)
(* Model of electric-rocker.py: the PowerMeter callback (power_data) that  *)
(* fuses ANT+ power samples, the render loop of __main__ that polls it,    *)
(* smooths the power, maps it to a zone colour and animates the LED strip, *)
(* and the SIGTERM / finally shutdown path.                                *)
(*                                                                         *)
(* Two threads are modelled: the ANT event thread, which runs power_data   *)
(* one statement group at a time, and the main thread, which runs __main__ *)
(* one statement at a time.  Python floats are modelled as exact           *)
(* rationals [n, d] in lowest terms.  An optional value is None (<<>>) or  *)
(* Some(v) (<<v>>).                                                        *)
(***************************************************************************)
EXTENDS Integers, Sequences, FiniteSets, TLC

\* ---------------------------------------------------------------- bounds
\* number of samples the sensor delivers
MaxSamples == 2
\* number of polls (render cycles) of the main loop
MaxCycles == 2
\* length of the LED strip in the model (LED_COUNT is 120 in the source)
NumPixels == 3
\* zone_color inputs: powers from -MaxNegHalfWatts/2 to MaxHalfWatts/2 watts
MaxNegHalfWatts == 8
MaxHalfWatts == 620
\* PowerSmoother under a constant power: powers 0 .. MaxSmoothWatts watts,
\* MaxSmoothCycles updates
MaxSmoothWatts == 200
MaxSmoothCycles == 4
\* one Chase cycle for every cadence 1 .. MaxCadence rpm
MaxCadence == 160

\* ------------------------------------------------------- program constants
FTP == 250
CountModulus == 256
PowerModulus == 65536

\* ------------------------------------------------------------- optionals
None == <<>>
Some(v) == <<v>>
Val(o) == o[1]

\* ------------------------------------------------------------- rationals
Abs(x) == IF x < 0 THEN -x ELSE x

RECURSIVE GCD(_, _)
GCD(a, b) == IF b = 0 THEN a ELSE GCD(b, a % b)

\* n / d for d > 0, in lowest terms
Rat(n, d) == LET g == GCD(Abs(n), d) IN [n |-> n \div g, d |-> d \div g]

\* ---------------------------------------------------------------- inputs
\* RawSample fields as the sensor collaborator delivers them
Counts == {0, 128}
APowers == {100, 65224}
IPowers == {None, Some(200)}
Cadences == {None, Some(0), Some(20)}
Samples == [count : Counts, apower : APowers, ipower : IPowers, cadence : Cadences]

NoArgs == [count |-> -1, apower |-> -1, ipower |-> None, cadence |-> None]
NoPre == [count |-> None, apower |-> None, power |-> None, cadence |-> None]

\* ------------------------------------------------------------ zone table
COLORMAP == <<
    [base |-> 0,   rgb |-> <<0, 0, 0>>],
    [base |-> 1,   rgb |-> <<64, 64, 64>>],
    [base |-> 60,  rgb |-> <<0, 0, 127>>],
    [base |-> 76,  rgb |-> <<0, 127, 0>>],
    [base |-> 90,  rgb |-> <<127, 127, 0>>],
    [base |-> 105, rgb |-> <<127, 63, 0>>],
    [base |-> 119, rgb |-> <<255, 0, 0>> ] >>

\* rpi_ws281x Color(red, green, blue): the packed 24-bit value
Color(rgb) == rgb[1] * 65536 + rgb[2] * 256 + rgb[3]

\* ------------------------------------------------------------ PowerFusion
\* BicyclePower.wrapDifference(current, previous, max)
wrapDifference(current, previous, max) == (current - previous + max) % max

\* line 108: self.power = ipower
SeedPowerNoAbsent(ipower) == IF ipower = None THEN Some(Rat(0, 1)) ELSE Some(Rat(Val(ipower), 1))
SeedPower(ipower) == IF ipower = None THEN None ELSE Some(Rat(Val(ipower), 1))

\* line 111: events = self.wrapDifference(count, self.previous_count, 256)
EventsFullWrap(count, pcount) ==
    IF count = pcount THEN CountModulus ELSE wrapDifference(count, pcount, CountModulus)
Events(count, pcount) == wrapDifference(count, pcount, CountModulus)

\* lines 114-115: total = wrapDifference(apower, previous_power, 65536); total / events
FusedPowerPerMessage(apower, ppower, events) ==
    Rat(wrapDifference(apower, ppower, PowerModulus), 1)
FusedPowerNoWrap(apower, ppower, events) == Rat(apower - ppower, events)
FusedPower(apower, ppower, events) ==
    Rat(wrapDifference(apower, ppower, PowerModulus), events)

\* lines 105-106: if cadence is not None: self.cadence = cadence
NewCadenceClobber(arg, current) == arg
NewCadence(arg, current) == IF arg # None THEN arg ELSE current

VARIABLES
    \* PowerMeter fields
    previous_count, previous_power, power, cadence,
    \* ANT event thread: position in power_data, its arguments
    cb_pc, args, delivered,
    \* main thread: position, locals of __main__
    pc, m_power, m_cadence, avg_power, color, repeats, cycles,
    \* colorWipe / theaterChase frames: loop indices and return position
    w_i, w_color, w_ret, t_j, t_q,
    \* LED strip: pixel buffer and the frame committed by show()
    pixels, frame,
    \* process: SIGTERM handler installed, SIGTERM delivered, channel open, node running
    handler, sigterm, opened, running,
    \* configuration in force: LED_COUNT (the strip length) and the COLORMAP table
    led_count, zones,
    \* history: fusion state when the running power_data call started, whether it divided
    pre, divided,
    \* history: cadence of the latest ingested sample that had one
    h_cadence,
    \* history: "empty", "seedless" (first sample had no ipower, only duplicates since), "seeded"
    h_seed, h_first,
    \* history: the (power, cadence) pairs PowerFusion held between ingests during a get()
    snaps

sensor_vars == <<previous_count, previous_power, power, cadence, cb_pc, args, delivered>>
main_vars == <<pc, m_power, m_cadence, avg_power, color, repeats, cycles,
               w_i, w_color, w_ret, t_j, t_q, pixels, frame, handler, sigterm, opened, running,
               led_count, zones>>
hist_vars == <<pre, divided, h_cadence, h_seed, h_first, snaps>>
vars == <<sensor_vars, main_vars, hist_vars>>

\* range(strip.numPixels())
Pixel == 0 .. led_count - 1

\* the local rgb of zone_color before the loop has assigned it
Unbound == <<>>

\* percent < b, where percent = (100. * power) / FTP and power = n/d
PercentNotAbove(p, b) == 100 * p.n <= b * FTP * p.d
PercentBelow(p, b) == 100 * p.n < b * FTP * p.d

\* the for loop of zone_color over COLORMAP (zones) from entry i on, rgb being the value assigned so far
RECURSIVE ZoneScan(_, _, _)
ZoneScan(i, rgb, p) ==
    IF i > Len(zones) THEN rgb
    ELSE IF PercentBelow(p, zones[i].base) THEN rgb
    ELSE ZoneScan(i + 1, zones[i].rgb, p)

\* zone_color(power): Some(colour), or None when `return Color(*rgb)` raises
\* UnboundLocalError because the loop broke before assigning rgb
zone_color(p) ==
    LET rgb == ZoneScan(1, Unbound, p)
    IN  IF rgb = Unbound THEN None ELSE Some(Color(rgb))


\* strip.setPixelColor(n, c): the library ignores an index outside the strip
setPixelColor(buf, n, c) == IF n \in Pixel THEN [buf EXCEPT ![n] = c] ELSE buf

\* the indices i + q for i in range(0, strip.numPixels(), 3)
ChaseIndicesNoOffset(q) == {i : i \in {k \in Pixel : k % 3 = 0}}
ChaseIndices(q) == {i + q : i \in {k \in Pixel : k % 3 = 0}}

\* the inner for loops of theaterChase: every pixel i + q set to c
ChaseFill(buf, q, c) == [n \in Pixel |-> IF n \in ChaseIndices(q) THEN c ELSE buf[n]]

\* line 169: (power + 3 * avg_power) / 4, over the common denominator l
SmoothWeightsSwapped(p, avg) ==
    LET l == (p.d * avg.d) \div GCD(p.d, avg.d)
    IN  Rat(3 * p.n * (l \div p.d) + avg.n * (l \div avg.d), 4 * l)
Smooth(p, avg) ==
    LET l == (p.d * avg.d) \div GCD(p.d, avg.d)
    IN  Rat(p.n * (l \div p.d) + 3 * avg.n * (l \div avg.d), 4 * l)

\* line 165: if power is None
NoDataNever(p) == FALSE
NoData(p) == p = None

\* lines 172-183: the if / elif / else on cadence
SelectModeFalsy(c) == IF c = None \/ c = Some(0) THEN "Solid" ELSE "Chase"
SelectMode(c) == IF c = None THEN "Solid" ELSE IF Val(c) = 0 THEN "Paused" ELSE "Chase"

\* lines 180-181: floor(1000 / (10000 / cadence)) in IEEE doubles, which is
\* cadence // 10 for every cadence in 1..255 except 150, where it is 14
RepeatsInverse(c) == 1000 \div c
Repeats(c) == IF c = 150 THEN 14 ELSE c \div 10

Yellow == Color(<<127, 127, 0>>)
Blue == Color(<<0, 0, 127>>)
Black == Color(<<0, 0, 0>>)

Init ==
    /\ previous_count = None /\ previous_power = None
    /\ power = None /\ cadence = None
    /\ cb_pc = "idle" /\ args = NoArgs /\ delivered = 0
    /\ led_count = NumPixels /\ zones = COLORMAP
    /\ pc = "l157" /\ m_power = None /\ m_cadence = None
    /\ avg_power = Rat(0, 1) /\ color = Black /\ repeats = 0 /\ cycles = 0
    /\ w_i = 0 /\ w_color = Black /\ w_ret = "none" /\ t_j = 0 /\ t_q = 0
    /\ pixels = [n \in Pixel |-> Yellow] /\ frame = [n \in Pixel |-> Yellow]
    /\ handler = FALSE /\ sigterm = FALSE /\ opened = TRUE /\ running = TRUE
    /\ pre = NoPre /\ divided = FALSE
    /\ h_cadence = None /\ h_seed = "empty" /\ h_first = None
    /\ snaps = {}

\* ------------------------------------------------------- ANT event thread
\* a power_data call returns (no field is assigned in the returning step itself
\* except the previous counters); the history kept at that point
Returned ==
    /\ cb_pc' = "idle" /\ args' = NoArgs /\ pre' = NoPre
    /\ h_cadence' = IF args.cadence # None THEN args.cadence ELSE h_cadence
    /\ h_seed' = IF h_seed = "empty"
                    THEN (IF args.ipower = None THEN "seedless" ELSE "seeded")
                 ELSE IF h_seed = "seedless" /\ Some(args.count) # h_first THEN "seeded"
                 ELSE h_seed
    /\ h_first' = IF h_seed' = "seedless" THEN (IF h_seed = "empty" THEN Some(args.count) ELSE h_first)
                  ELSE None
    /\ snaps' = IF pc \in {"l164b", "l165"} THEN snaps \cup {<<power, cadence>>} ELSE snaps

\* the event machine calls onPowerData with the next broadcast sample
Deliver(s) ==
    /\ cb_pc = "idle" /\ opened /\ pc # "exit"
    /\ delivered < MaxSamples
    /\ cb_pc' = "l105" /\ args' = s /\ delivered' = delivered + 1
    /\ pre' = [count |-> previous_count, apower |-> previous_power,
               power |-> power, cadence |-> cadence]
    /\ divided' = FALSE
    /\ UNCHANGED <<previous_count, previous_power, power, cadence>>
    /\ UNCHANGED <<h_cadence, h_seed, h_first, snaps>>
    /\ UNCHANGED main_vars

CbCadence ==
    /\ cb_pc = "l105"
    /\ cadence' = NewCadence(args.cadence, cadence)
    /\ cb_pc' = "l107"
    /\ UNCHANGED <<previous_count, previous_power, power, args, delivered>>
    /\ UNCHANGED hist_vars
    /\ UNCHANGED main_vars

CbFuse ==
    /\ cb_pc = "l107"
    /\ IF previous_count = None
       THEN /\ power' = SeedPower(args.ipower)
            /\ cb_pc' = "l116"
            /\ UNCHANGED <<args, hist_vars>>
       ELSE LET events == Events(args.count, Val(previous_count))
            IN  IF events = 0
                THEN /\ power' = power
                     /\ divided' = divided
                     /\ Returned
                ELSE /\ power' = Some(FusedPower(args.apower, Val(previous_power), events))
                     /\ divided' = TRUE
                     /\ cb_pc' = "l116"
                     /\ UNCHANGED <<args, pre, h_cadence, h_seed, h_first, snaps>>
    /\ UNCHANGED <<previous_count, previous_power, cadence, delivered>>
    /\ UNCHANGED main_vars

CbStore ==
    /\ cb_pc = "l116"
    /\ previous_power' = Some(args.apower)
    /\ previous_count' = Some(args.count)
    /\ UNCHANGED <<power, cadence, delivered, divided>>
    /\ Returned
    /\ UNCHANGED main_vars

Sensor == (\E s \in Samples : Deliver(s)) \/ CbCadence \/ CbFuse \/ CbStore

\* ------------------------------------------------------------ main thread
frame_vars == <<w_i, w_color, w_ret, t_j, t_q>>

\* call colorWipe(strip, c, wait_ms) and come back at ret
StartWipe(c, ret) ==
    /\ w_i' = 0 /\ w_color' = c /\ w_ret' = ret
    /\ pc' = IF led_count > 0 THEN "wipe_set" ELSE ret
    /\ UNCHANGED <<t_j, t_q>>

MainOnly == UNCHANGED <<sensor_vars, pre, divided, h_cadence, h_seed, h_first, led_count, zones>>

\* the exception unwinds the render loop: its locals and the frames of
\* colorWipe / theaterChase are read by no later statement and are cleared
Unwound ==
    /\ m_power' = None /\ m_cadence' = None /\ avg_power' = Rat(0, 1)
    /\ color' = Black /\ repeats' = 0 /\ cycles' = 0
    /\ w_i' = 0 /\ w_color' = Black /\ w_ret' = "none" /\ t_j' = 0 /\ t_q' = 0
    /\ snaps' = {}

InstallHandler ==
    /\ pc = "l157"
    /\ handler' = TRUE /\ pc' = "l158"
    /\ UNCHANGED <<m_power, m_cadence, avg_power, color, repeats, cycles, frame_vars,
                   pixels, frame, sigterm, opened, running, snaps>>
    /\ MainOnly

BlueWipe ==
    /\ pc = "l158"
    /\ StartWipe(Blue, "l161")
    /\ UNCHANGED <<m_power, m_cadence, avg_power, color, repeats, cycles,
                   pixels, frame, handler, sigterm, opened, running, snaps>>
    /\ MainOnly

WipeSet ==
    /\ pc = "wipe_set"
    /\ pixels' = setPixelColor(pixels, w_i, w_color)
    /\ pc' = "wipe_show"
    /\ UNCHANGED <<m_power, m_cadence, avg_power, color, repeats, cycles, frame_vars,
                   frame, handler, sigterm, opened, running, snaps>>
    /\ MainOnly

\* strip.show(), time.sleep(wait_ms / 1000.0) and the next iteration test
WipeShow ==
    /\ pc = "wipe_show"
    /\ frame' = pixels
    /\ IF w_i + 1 < led_count
       THEN pc' = "wipe_set" /\ w_i' = w_i + 1 /\ UNCHANGED <<w_color, w_ret>>
       ELSE pc' = w_ret /\ w_i' = 0 /\ w_color' = Black /\ w_ret' = "none"
    /\ UNCHANGED <<m_power, m_cadence, avg_power, color, repeats, cycles, t_j, t_q,
                   pixels, handler, sigterm, opened, running, snaps>>
    /\ MainOnly

EnterTry ==
    /\ pc = "l161"
    /\ avg_power' = Rat(0, 1) /\ pc' = "l164"
    /\ UNCHANGED <<m_power, m_cadence, color, repeats, cycles, frame_vars,
                   pixels, frame, handler, sigterm, opened, running, snaps>>
    /\ MainOnly

\* get(): load self.power ...
GetPower ==
    /\ pc = "l164" /\ cycles < MaxCycles
    /\ m_power' = power /\ cycles' = cycles + 1 /\ pc' = "l164b"
    /\ snaps' = {IF cb_pc = "idle" THEN <<power, cadence>> ELSE <<pre.power, pre.cadence>>}
    /\ UNCHANGED <<m_cadence, avg_power, color, repeats, frame_vars,
                   pixels, frame, handler, sigterm, opened, running>>
    /\ MainOnly

\* ... then self.cadence, and unpack the tuple
GetCadence ==
    /\ pc = "l164b"
    /\ m_cadence' = cadence /\ pc' = "l165"
    /\ UNCHANGED <<m_power, avg_power, color, repeats, cycles, frame_vars,
                   pixels, frame, handler, sigterm, opened, running, snaps>>
    /\ MainOnly

CheckPower ==
    /\ pc = "l165"
    /\ pc' = IF NoData(m_power) THEN "l166" ELSE "l169"
    /\ snaps' = {}
    /\ UNCHANGED <<m_power, m_cadence, avg_power, color, repeats, cycles, frame_vars,
                   pixels, frame, handler, sigterm, opened, running>>
    /\ MainOnly

\* time.sleep(5); continue
WaitForData ==
    /\ pc = "l166"
    /\ pc' = "l164"
    /\ UNCHANGED <<m_power, m_cadence, avg_power, color, repeats, cycles, frame_vars,
                   pixels, frame, handler, sigterm, opened, running, snaps>>
    /\ MainOnly

\* avg_power = (power + 3 * avg_power) / 4; None + float raises TypeError
SmoothPower ==
    /\ pc = "l169"
    /\ IF m_power = None THEN pc' = "l185" /\ Unwound
       ELSE /\ avg_power' = Smooth(Val(m_power), avg_power) /\ pc' = "l170"
            /\ UNCHANGED <<m_power, m_cadence, color, repeats, cycles, frame_vars, snaps>>
    /\ UNCHANGED <<pixels, frame, handler, sigterm, opened, running>>
    /\ MainOnly

\* color = zone_color(avg_power); an UnboundLocalError unwinds to the finally clause
ZoneColor ==
    /\ pc = "l170"
    /\ LET c == zone_color(avg_power)
       IN  IF c = None THEN pc' = "l185" /\ Unwound
           ELSE /\ pc' = "l172" /\ color' = Val(c)
                /\ UNCHANGED <<m_power, m_cadence, avg_power, repeats, cycles, frame_vars, snaps>>
    /\ UNCHANGED <<pixels, frame, handler, sigterm, opened, running>>
    /\ MainOnly

Dispatch ==
    /\ pc = "l172"
    /\ LET mode == SelectMode(m_cadence)
       IN  IF mode = "Solid" THEN StartWipe(color, "l164")
           ELSE /\ pc' = IF mode = "Paused" THEN "l177" ELSE "l180"
                /\ UNCHANGED frame_vars
    /\ UNCHANGED <<m_power, m_cadence, avg_power, color, repeats, cycles,
                   pixels, frame, handler, sigterm, opened, running, snaps>>
    /\ MainOnly

\* time.sleep(1)
Paused ==
    /\ pc = "l177"
    /\ pc' = "l164"
    /\ UNCHANGED <<m_power, m_cadence, avg_power, color, repeats, cycles, frame_vars,
                   pixels, frame, handler, sigterm, opened, running, snaps>>
    /\ MainOnly

\* delay_ms, repeats and the call of theaterChase
StartChase ==
    /\ pc = "l180"
    /\ repeats' = Repeats(Val(m_cadence))
    /\ t_j' = 0 /\ t_q' = 0
    /\ pc' = IF repeats' > 0 THEN "tc_set" ELSE "l164"
    /\ UNCHANGED <<m_power, m_cadence, avg_power, color, cycles, w_i, w_color, w_ret,
                   pixels, frame, handler, sigterm, opened, running, snaps>>
    /\ MainOnly

ChaseSet ==
    /\ pc = "tc_set"
    /\ pixels' = ChaseFill(pixels, t_q, color)
    /\ pc' = "tc_show"
    /\ UNCHANGED <<m_power, m_cadence, avg_power, color, repeats, cycles, frame_vars,
                   frame, handler, sigterm, opened, running, snaps>>
    /\ MainOnly

\* strip.show() and time.sleep(wait_ms / 1000.0)
ChaseShow ==
    /\ pc = "tc_show"
    /\ frame' = pixels
    /\ pc' = "tc_clear"
    /\ UNCHANGED <<m_power, m_cadence, avg_power, color, repeats, cycles, frame_vars,
                   pixels, handler, sigterm, opened, running, snaps>>
    /\ MainOnly

ChaseClear ==
    /\ pc = "tc_clear"
    /\ pixels' = ChaseFill(pixels, t_q, 0)
    /\ IF t_q < 2 THEN t_q' = t_q + 1 /\ t_j' = t_j /\ pc' = "tc_set"
       ELSE IF t_j + 1 < repeats THEN t_q' = 0 /\ t_j' = t_j + 1 /\ pc' = "tc_set"
       ELSE t_q' = 0 /\ t_j' = 0 /\ pc' = "l164"
    /\ UNCHANGED <<m_power, m_cadence, avg_power, color, repeats, cycles, w_i, w_color, w_ret,
                   frame, handler, sigterm, opened, running, snaps>>
    /\ MainOnly

\* finally: colorWipe(strip, Color(0, 0, 0), wait_ms=10)
FinallyWipe ==
    /\ pc = "l185"
    /\ StartWipe(Black, "l186")
    /\ UNCHANGED <<m_power, m_cadence, avg_power, color, repeats, cycles,
                   pixels, frame, handler, sigterm, opened, running, snaps>>
    /\ MainOnly

ClosePowermeter ==
    /\ pc = "l186"
    /\ opened' = FALSE /\ pc' = "l187"
    /\ UNCHANGED <<m_power, m_cadence, avg_power, color, repeats, cycles, frame_vars,
                   pixels, frame, handler, sigterm, running, snaps>>
    /\ MainOnly

StopNode ==
    /\ pc = "l187"
    /\ running' = FALSE /\ pc' = "exit"
    /\ UNCHANGED <<m_power, m_cadence, avg_power, color, repeats, cycles, frame_vars,
                   pixels, frame, handler, sigterm, opened, snaps>>
    /\ MainOnly

\* the positions of the main thread inside the try block of __main__
InTry ==
    \/ pc \in {"l161", "l164", "l164b", "l165", "l166", "l169", "l170", "l172", "l177",
               "l180", "tc_set", "tc_show", "tc_clear"}
    \/ pc \in {"wipe_set", "wipe_show"} /\ w_ret = "l164"

\* SIGTERM: sigterm_handler raises in the main thread between two bytecodes;
\* the finally clause catches it inside the try block only
Sigterm ==
    /\ handler /\ ~sigterm /\ pc # "exit"
    /\ sigterm' = TRUE
    /\ pc' = IF InTry THEN "l185" ELSE "exit"
    /\ Unwound
    /\ UNCHANGED <<pixels, frame, handler, opened, running>>
    /\ MainOnly

Main ==
    \/ InstallHandler \/ BlueWipe \/ WipeSet \/ WipeShow \/ EnterTry
    \/ GetPower \/ GetCadence \/ CheckPower \/ WaitForData
    \/ SmoothPower \/ ZoneColor \/ Dispatch \/ Paused
    \/ StartChase \/ ChaseSet \/ ChaseShow \/ ChaseClear
    \/ FinallyWipe \/ ClosePowermeter \/ StopNode

Next == Sensor \/ Main \/ Sigterm

Spec == Init /\ [][Next]_vars

\* ------------------------------------------------------------ zone_color
\* zone_color as a function of its argument: the main thread stands at line 170
\* with avg_power any multiple of half a watt in the input range
ZoneInputs == {Rat(n, 2) : n \in (0 - MaxNegHalfWatts) .. MaxHalfWatts}

InitZone ==
    /\ previous_count = None /\ previous_power = None
    /\ power = None /\ cadence = None
    /\ cb_pc = "idle" /\ args = NoArgs /\ delivered = 0
    /\ led_count = NumPixels /\ zones = COLORMAP
    /\ pc = "l170" /\ m_power = None /\ m_cadence = None
    /\ avg_power \in ZoneInputs /\ color = Black /\ repeats = 0 /\ cycles = 0
    /\ w_i = 0 /\ w_color = Black /\ w_ret = "none" /\ t_j = 0 /\ t_q = 0
    /\ pixels = [n \in Pixel |-> Blue] /\ frame = [n \in Pixel |-> Blue]
    /\ handler = TRUE /\ sigterm = FALSE /\ opened = TRUE /\ running = TRUE
    /\ pre = NoPre /\ divided = FALSE
    /\ h_cadence = None /\ h_seed = "empty" /\ h_first = None
    /\ snaps = {}

NextZone == ZoneColor

SpecZone == InitZone /\ [][NextZone]_vars

\* ================================================================ claims
\* a power_data call returns in this step
CbReturns == cb_pc # "idle" /\ cb_pc' = "idle"
\* the sample being ingested is not the first one
NotFirst == pre.count # None
\* (event_count - previous_event_count) mod 256 and
\* (accumulated_power - previous_accumulated_power) mod 65536 of the sample being ingested
EventDelta == (args.count - Val(pre.count)) % 256
PowerDelta == (args.apower - Val(pre.apower)) % 65536

\* C1: when an ingest that is not the first and whose event count differs
\* from the stored one modulo 256 returns, the fused power is the wrapped
\* accumulated-power delta divided by the wrapped event delta, and the stored
\* previous counters are the sample's counters.
C1_GapBridging ==
    [][ (CbReturns /\ NotFirst /\ EventDelta # 0) =>
            /\ power' # None
            /\ Val(power').n * EventDelta = PowerDelta * Val(power').d
            /\ previous_count' = Some(args.count)
            /\ previous_power' = Some(args.apower) ]_vars

\* both counters wrapped (128 -> 0 and 65224 -> 100): 412 / 128 watts
C1_Witness ==
    /\ cb_pc = "idle" /\ delivered = 2
    /\ previous_count = Some(0) /\ previous_power = Some(100)
    /\ power = Some([n |-> 103, d |-> 32])

\* C2: an ingest that is not the first and whose event delta is 0 modulo 256
\* leaves the fused power and both previous counters unchanged and divides
\* nothing; the fused power changes only in a first ingest or in one whose
\* event delta is not 0.
C2_DuplicateAbsorbed ==
    [][ /\ (CbReturns /\ NotFirst /\ EventDelta = 0) =>
              /\ power' = pre.power
              /\ previous_count' = pre.count
              /\ previous_power' = pre.apower
              /\ ~divided'
        /\ (power' # power) => (cb_pc = "l107" /\ (~NotFirst \/ EventDelta # 0)) ]_vars

\* two samples ingested and the power is still the first one's instantaneous
\* 200 W: the second one was a duplicate
C2_Witness ==
    /\ cb_pc = "idle" /\ delivered = 2 /\ ~divided
    /\ power = Some([n |-> 200, d |-> 1])

\* C3: the pair get() returned is a pair PowerFusion held between two
\* ingests, from the start of the get() on.
C3_ConsistentSnapshot ==
    (pc = "l165" /\ cb_pc = "idle") => <<m_power, m_cadence>> \in snaps

\* the rgb of the highest COLORMAP entry whose base is <= 100 * p / FTP
HighestZone(p) ==
    LET ok == {k \in 1 .. Len(COLORMAP) : COLORMAP[k].base * FTP * p.d <= 100 * p.n}
    IN  COLORMAP[CHOOSE k \in ok : \A j \in ok : j <= k].rgb

\* zone_color returns in this step (no signal arrives)
ZoneReturns == pc = "l170" /\ pc' # "l170" /\ sigterm' = sigterm

\* C4: for a power whose percent of FTP is >= 0, zone_color returns the colour
\* of the highest entry whose base is <= percent: a percent equal to a base
\* gives that entry's colour, a percent >= 119 gives the last entry's red.
C4_ZoneLookup ==
    [][ (ZoneReturns /\ avg_power.n >= 0) =>
            /\ pc' = "l172"
            /\ color' = Color(HighestZone(avg_power))
            /\ \A k \in 1 .. Len(COLORMAP) :
                   100 * avg_power.n = COLORMAP[k].base * FTP * avg_power.d
                       => color' = Color(COLORMAP[k].rgb)
            /\ 100 * avg_power.n >= 119 * FTP * avg_power.d
                   => color' = Color(<<255, 0, 0>>) ]_vars

\* 150 W is exactly 60 percent of FTP and maps to blue
C4_Witness ==
    pc = "l172" /\ avg_power = [n |-> 150, d |-> 1] /\ color = Color(<<0, 0, 127>>)

\* C5: zone_color has no error outcome: it returns a colour for every input,
\* the first entry's colour for a negative power.
C5_NoErrorOutcome ==
    [][ ZoneReturns =>
            /\ pc' = "l172"
            /\ avg_power.n < 0 => color' = Color(COLORMAP[1].rgb) ]_vars

\* the render mode the main thread is executing
ModeAt ==
    IF pc \in {"wipe_set", "wipe_show"} /\ w_ret = "l164" THEN "Solid"
    ELSE IF pc = "l177" THEN "Paused"
    ELSE IF pc \in {"l180", "tc_set", "tc_show", "tc_clear"} THEN "Chase"
    ELSE "none"

\* the render mode the polled cadence c asks for
ModeFor(c) ==
    IF c = None THEN "Solid" ELSE IF c = Some(0) THEN "Paused" ELSE "Chase"

\* C6: in a render cycle with power present the mode executed is the one the
\* polled cadence asks for (absent: Solid, 0: Paused, positive: Chase); a
\* mode is entered only from the dispatch at line 172, so once per cycle;
\* Paused draws nothing.
C6_ModeSelection ==
    [][ /\ (ModeAt' # "none") => (ModeAt' = ModeFor(m_cadence') /\ m_power' # None)
        /\ (pc = "l172" /\ pc' # "l172" /\ sigterm' = sigterm) =>
               (ModeAt' = ModeFor(m_cadence) /\ m_cadence' = m_cadence)
        /\ (ModeAt' # "none" /\ ModeAt' # ModeAt) => pc = "l172"
        /\ (pc = "l177") => (pixels' = pixels /\ frame' = frame) ]_vars

\* second cycle, cadence 0 polled: Paused, whatever the first cycle did
C6_Witness == pc = "l177" /\ cycles = 2 /\ m_cadence = Some(0) /\ m_power # None

\* C7: in a render cycle in which get() returned absent power, every step of
\* the loop leaves the pixel buffer, the shown frame and the smoothed average
\* unchanged; the loop sleeps and then polls again.
C7_NoRenderWithoutData ==
    [][ (pc \in {"l165", "l166"} /\ m_power = None /\ sigterm' = sigterm) =>
            /\ pixels' = pixels /\ frame' = frame /\ avg_power' = avg_power
            /\ pc = "l165" => pc' \in {"l165", "l166"}
            /\ pc = "l166" => pc' \in {"l166", "l164"} ]_vars

\* waiting for data in the second cycle, the strip still showing the blue wipe
C7_Witness ==
    /\ pc = "l166" /\ m_power = None /\ cycles = 2
    /\ frame = [n \in Pixel |-> Blue] /\ avg_power = Rat(0, 1)

\* C8: once SIGTERM has been delivered to the installed handler, the process
\* exits only with the whole strip blanked and shown, the power-meter channel
\* closed and the node stopped.
C8_Shutdown ==
    (sigterm /\ pc = "exit") =>
        /\ pixels = [n \in Pixel |-> 0] /\ frame = [n \in Pixel |-> 0]
        /\ ~opened /\ ~running

\* C9: between ingests the fused cadence is the cadence of the latest
\* ingested sample that had one (absent if none had); within an ingest, past
\* line 106, it is the sample's cadence if present and else still that one.
C9_CadenceRetention ==
    /\ cb_pc = "idle" => cadence = h_cadence
    /\ cb_pc \in {"l107", "l116"} =>
           cadence = IF args.cadence # None THEN args.cadence ELSE h_cadence

\* a sample without cadence has passed line 106 and the cadence 20 of the
\* sample before it is still there
C9_Witness ==
    /\ cb_pc = "l107" /\ delivered = 2 /\ args.cadence = None
    /\ h_cadence = Some(20) /\ cadence = Some(20)

\* C10 as stated: between ingests, the power get() returns is absent if and
\* only if no sample has been ingested.
C10_AbsentIffNoSample ==
    cb_pc = "idle" => (power = None <=> h_seed = "empty")

\* C10 amended: between ingests, the power get() returns is absent if and only
\* if no sample has been ingested, or the first sample had no instantaneous
\* power and every sample since had the first one's event count.
C10_AbsentIffNoPowerYet ==
    cb_pc = "idle" => (power = None <=> h_seed \in {"empty", "seedless"})

\* a first sample without instantaneous power and a duplicate of it ingested
C10_Witness ==
    cb_pc = "idle" /\ delivered = 2 /\ h_seed = "seedless" /\ power = None

\* ---------------------------------------------------------- PowerSmoother
\* the render loop under a constant fused reading: one sample (power p,
\* cadence 0) has been ingested and the sensor stays silent; the loop is
\* about to be entered and polls MaxSmoothCycles times
InitSmooth ==
    /\ previous_count = Some(0) /\ previous_power = Some(100)
    /\ power \in {Some(Rat(p, 1)) : p \in 0 .. MaxSmoothWatts} /\ cadence = Some(0)
    /\ cb_pc = "idle" /\ args = NoArgs /\ delivered = MaxSamples
    /\ led_count = NumPixels /\ zones = COLORMAP
    /\ pc = "l161" /\ m_power = None /\ m_cadence = None
    /\ avg_power = Rat(0, 1) /\ color = Black /\ repeats = 0
    \* the poll counter starts MaxSmoothCycles below its cap MaxCycles
    /\ cycles = MaxCycles - MaxSmoothCycles
    /\ w_i = 0 /\ w_color = Black /\ w_ret = "none" /\ t_j = 0 /\ t_q = 0
    /\ pixels = [n \in Pixel |-> Blue] /\ frame = [n \in Pixel |-> Blue]
    /\ handler = TRUE /\ sigterm = FALSE /\ opened = TRUE /\ running = TRUE
    /\ pre = NoPre /\ divided = FALSE
    /\ h_cadence = Some(0) /\ h_seed = "seeded" /\ h_first = None
    /\ snaps = {}

NextSmooth ==
    \/ EnterTry \/ GetPower \/ GetCadence \/ CheckPower
    \/ SmoothPower \/ ZoneColor \/ Dispatch \/ Paused

SpecSmooth == InitSmooth /\ [][NextSmooth]_vars

\* a <= b for rationals
RatLeq(a, b) == a.n * b.d <= b.n * a.d

\* the smoothing statement at line 169 runs in this step
SmoothStep == pc = "l169" /\ pc' = "l170"

\* C11: with a constant non-negative power p and the average started at 0,
\* every update leaves the average no smaller, never above p, and with
\* 3/4 of its former distance to p; for p = 200 it gives 50 and then 87.5.
C11_SmootherConverges ==
    [][ SmoothStep =>
          LET p == Val(m_power) IN
            /\ RatLeq(avg_power, avg_power')
            /\ RatLeq(avg_power', p)
            /\ 4 * (p.n * avg_power'.d - avg_power'.n * p.d) * avg_power.d
                 = 3 * (p.n * avg_power.d - avg_power.n * p.d) * avg_power'.d
            /\ (p = Rat(200, 1) /\ avg_power = Rat(0, 1)) => avg_power' = Rat(50, 1)
            /\ (p = Rat(200, 1) /\ avg_power = Rat(50, 1)) => avg_power' = Rat(175, 2) ]_vars

\* the second update with 200 W has given 87.5
C11_Witness ==
    /\ pc = "l170" /\ m_power = Some(Rat(200, 1)) /\ avg_power = Rat(175, 2)
    /\ cycles = MaxCycles - MaxSmoothCycles + 2

\* ------------------------------------------------------------ Chase cycle
\* the first render cycle at the else branch of line 178: one sample
\* (power 200 W, cadence c > 0) was ingested and read, the average is 50 W,
\* the strip still shows the start-up wipe
InitChase ==
    /\ previous_count = Some(0) /\ previous_power = Some(100)
    /\ power = Some(Rat(200, 1)) /\ cadence \in {Some(c) : c \in 1 .. MaxCadence}
    /\ cb_pc = "idle" /\ args = NoArgs /\ delivered = MaxSamples
    /\ led_count = NumPixels /\ zones = COLORMAP
    /\ pc = "l180" /\ m_power = power /\ m_cadence = cadence
    /\ avg_power = Rat(50, 1) /\ color = Val(zone_color(avg_power)) /\ repeats = 0
    /\ cycles = 1
    /\ w_i = 0 /\ w_color = Black /\ w_ret = "none" /\ t_j = 0 /\ t_q = 0
    /\ pixels = [n \in Pixel |-> Blue] /\ frame = [n \in Pixel |-> Blue]
    /\ handler = TRUE /\ sigterm = FALSE /\ opened = TRUE /\ running = TRUE
    /\ pre = NoPre /\ divided = FALSE
    /\ h_cadence = cadence /\ h_seed = "seeded" /\ h_first = None
    /\ snaps = {}

NextChase == StartChase \/ ChaseSet \/ ChaseShow \/ ChaseClear

SpecChase == InitChase /\ [][NextChase]_vars

\* line 181 has run for the cadence read in this cycle
RepeatsComputed == pc # "l180" /\ m_cadence # None

\* C12 as stated: every smaller positive cadence has at least as many
\* repeats as the cadence of this cycle.
C12_RepeatsGrowAsCadenceFalls ==
    RepeatsComputed =>
        \A c1 \in 1 .. Val(m_cadence) - 1 : Repeats(c1) >= repeats

\* C12: repeats = floor(1000 / (10000 / cadence)) never decreases as cadence
\* grows: every smaller positive cadence has at most as many repeats as the
\* cadence of this cycle, and repeats is at most cadence / 10.
C12_RepeatsGrowWithCadence ==
    RepeatsComputed =>
        /\ \A c1 \in 1 .. Val(m_cadence) - 1 : Repeats(c1) <= repeats
        /\ repeats * 10 <= Val(m_cadence)

\* cadence 90: nine repeats, the chase is under way
C12_Witness == pc = "tc_set" /\ m_cadence = Some(90) /\ repeats = 9 /\ t_j = 8

\* ---------------------------------------------------------- configuration
\* zone tables COLORMAP could be edited to: the shipped one, an empty one,
\* and one whose thresholds are not strictly increasing
ConfigTables ==
    { COLORMAP,
      << >>,
      << [base |-> 0,  rgb |-> <<0, 0, 0>>],
         [base |-> 90, rgb |-> <<127, 127, 0>>],
         [base |-> 60, rgb |-> <<0, 0, 127>>] >> }

\* what PowerFusion holds when the main thread starts: nothing, or one
\* sample with instantaneous power 200 W
FirstReadings ==
    { [power |-> None, cadence |-> None, count |-> None, apower |-> None] }
    \cup { [power |-> Some(Rat(200, 1)), cadence |-> c, count |-> Some(0), apower |-> Some(100)]
           : c \in Cadences }

\* the program started with constants LED_COUNT in 1 .. NumPixels and
\* COLORMAP in ConfigTables; the sensor is silent after the first reading
InitConfig ==
    /\ led_count \in 1 .. NumPixels /\ zones \in ConfigTables
    /\ \E r \in FirstReadings :
          /\ previous_count = r.count /\ previous_power = r.apower
          /\ power = r.power /\ cadence = r.cadence
          /\ delivered = IF r.count = None THEN 0 ELSE 1
          /\ h_cadence = r.cadence
          /\ h_seed = IF r.count = None THEN "empty" ELSE "seeded"
    /\ cb_pc = "idle" /\ args = NoArgs
    /\ pc = "l157" /\ m_power = None /\ m_cadence = None
    /\ avg_power = Rat(0, 1) /\ color = Black /\ repeats = 0 /\ cycles = 0
    /\ w_i = 0 /\ w_color = Black /\ w_ret = "none" /\ t_j = 0 /\ t_q = 0
    /\ pixels = [n \in Pixel |-> Yellow] /\ frame = [n \in Pixel |-> Yellow]
    /\ handler = FALSE /\ sigterm = FALSE /\ opened = TRUE /\ running = TRUE
    /\ pre = NoPre /\ divided = FALSE /\ h_first = None
    /\ snaps = {}

NextConfig == Main

SpecConfig == InitConfig /\ [][NextConfig]_vars

\* the zone table is non-empty with strictly increasing thresholds and the
\* strip has at least one pixel
ConfigValid ==
    /\ Len(zones) > 0
    /\ \A i \in 1 .. Len(zones) - 1 : zones[i].base < zones[i + 1].base
    /\ led_count > 0

\* the main thread is inside the while loop of line 162
InRenderLoop == InTry /\ pc # "l161"

\* C13: the render loop is never entered with an empty zone table, a table
\* whose thresholds are not strictly increasing, or a led_count of zero.
C13_ConfigRejectedBeforeLoop == InRenderLoop => ConfigValid

\* C15: every index colorWipe and theaterChase pass to setPixelColor lies in
\* 0 .. led_count - 1.
C15_PixelIndexInRange ==
    /\ pc = "wipe_set" => w_i \in 0 .. led_count - 1
    /\ pc \in {"tc_set", "tc_clear"} => ChaseIndices(t_q) \subseteq 0 .. led_count - 1

\* ------------------------------------------------------------ chase frames
\* C14: the frame committed by each show() of theaterChase in phase t_q has
\* exactly the pixels congruent to t_q modulo 3 in the chase colour and
\* every other pixel off.
C14_ChaseFrameContent ==
    pc = "tc_clear" => frame = [n \in Pixel |-> IF n % 3 = t_q THEN color ELSE 0]

\* C16 as stated: when a scheduling cycle has returned to the sampling loop
\* the pixel buffer equals the last committed frame.
C16_BufferCommitted == pc = "l164" => pixels = frame

\* C16: when a scheduling cycle has returned to the sampling loop the
\* pixel buffer differs from the last committed frame at most in the pixels
\* of the last chase phase, which theaterChase has cleared without a show().
C16_OnlyLastPhasePending ==
    pc = "l164" =>
        \A n \in Pixel : pixels[n] # frame[n] => (pixels[n] = 0 /\ n % 3 = 2)

\* a Chase cycle has returned with its last clear not committed
C16_Witness ==
    /\ pc = "l164" /\ cycles > 0 /\ repeats > 0 /\ color # 0
    /\ \E n \in Pixel : pixels[n] = 0 /\ frame[n] = color

\* C17: a Chase cycle shows at least one frame, and its hold time
\* repeats * 3 * delay_ms, with delay_ms = 10000 / cadence, is more than
\* 1500 ms and at most 3000 ms.
C17_ChaseCycleDuration ==
    RepeatsComputed =>
        LET c == Val(m_cadence) IN
          /\ repeats >= 1
          /\ 1500 * c < repeats * 3 * 10000
          /\ repeats * 3 * 10000 <= 3000 * c

\* ---------------------------------------------------- non-negative pipeline
\* C18: every present fused power is >= 0, and at most 65535 once a
\* counter delta has been divided; the smoothed average is >= 0; and
\* zone_color, called with it at line 170, assigns its colour variable.
C18_NonNegativePipeline ==
    /\ power # None =>
          /\ Val(power).n >= 0
          /\ divided => RatLeq(Val(power), Rat(PowerModulus - 1, 1))
    /\ m_power # None => Val(m_power).n >= 0
    /\ avg_power.n >= 0
    /\ pc = "l170" => zone_color(avg_power) # None

\* a power fused across a wrap of the accumulated-power counter has been
\* smoothed and given a colour
C18_Witness ==
    /\ pc = "l172" /\ divided /\ m_power = Some(Rat(103, 32))
    /\ avg_power = Rat(103, 128)

====
